---- MODULE Spec2Model ----
(***************************************************************************)
(* Face-recognition attendance: the recognition loop of recognize.py, the  *)
(* attendance table of attendance_system.db, the recorder                  *)
(* DatabaseManager.record_attendance of gui.py, the start and stop of      *)
(* recognition and the closing of the window by AttendanceSystemGUI of     *)
(* gui.py, and the camera preview of CameraPreviewPanel of gui.py.         *)
(*                                                                         *)
(* Names are sequences of one-character strings, so that the student id    *)
(* derived from a name (lower-casing, spaces to underscores) is computed.  *)
(* Embeddings are points on a line, distances are in tenths.               *)
(***************************************************************************)
EXTENDS Integers, Sequences, FiniteSets, Bags, TLC

\* ---------------------------------------------------------------- bounds
MaxFrames  == 6      \* successfully read frames per run
MaxFaces   == 1      \* faces detected on one frame
MaxDay     == 1      \* calendar days after the first one
MaxLost    == 2      \* consecutive failed reads that are followed
MaxGallery == 2      \* gallery entries, matcher specification
MaxCoord   == 8      \* embedding coordinates 0..MaxCoord, matcher specification
MaxMinute  == 20     \* minutes after 09:00 of the latest event, late-status specification
MaxPipe    == 2      \* lines the stdout pipe of a subprocess holds
MaxEvents  == 1      \* output lines waiting for the GUI thread
MaxPreviews == 2     \* presses of the Start button of the camera preview

\* ------------------------------------------------------ program constants
TOLERANCE  == 5      \* 0.5, in tenths
SkipFactor == 3      \* frame_count % 3
ShiftStart == 32400  \* "09:00:00" in seconds
LateLimit  == 15     \* late_mins > 15

\* ------------------------------------------------------------- the data
Names    == { <<"A", " ", "b">>, <<"a", "_", "b">>, <<"c">> }
Unknown  == <<"U", "n", "k">>
Labels   == Names \cup {Unknown}

Recorders == {"r1", "r2"}

\* the run_recognition threads, numbered by the session each serves
Workers == {1}

\* the time of day at which the events of a day happen, in seconds: 09:16:00
Times == {33360}

Lower(ch) == CASE ch = "A" -> "a" [] ch = "B" -> "b" [] ch = "C" -> "c"
               [] ch = "U" -> "u" [] OTHER -> ch

\* name.lower().replace(" ", "_")
StudentId(n) ==
  [i \in 1..Len(n) |-> IF Lower(n[i]) = " " THEN "_" ELSE Lower(n[i])]

StudentIds == {StudentId(n) : n \in Labels}

VARIABLES
  date, tod,                \* the wall clock: day and time of day
  dbReady, table,           \* attendance_system.db: schema created, the bag of attendance rows
  modelFile,                \* model.pkl has been written
  known_encodings, known_names,   \* the gallery train_model.py puts in it
  pc, cap, marked, frame_count,   \* the recognition process
  encodings, annot,
  stopReq,                        \* q has been pressed and not yet read
  out,                            \* the lines its last step printed
  owner,                          \* the GUI worker that reads its stdout, 0: a terminal
  shown, lostPrints, crash,       \* what the process showed and printed
  saveCalls, matchedOn, detectedOn,
  ignored,                        \* labels whose INSERT OR IGNORE found their row there
  handles,                        \* camera handles it opened and has not released
  rpc, rargs, ret,          \* callers of record_attendance: position, locals, result
  lastOk, prevOk, changed,  \* and what their last calls did
  is_running, proc,         \* AttendanceSystemGUI: is_running, recognition_process
  current_session_id, sessions,   \* the session of the GUI, the sessions table
  recognized_count, unknown_count,
  wpc, pipe,                \* run_recognition threads: position, the stdout pipe each reads
  events,                   \* root.after: output lines waiting for the GUI thread
  dialog,                   \* the message box shown last
  conn,                     \* DatabaseManager.conn of the GUI: open or closed
  window,                   \* the root window: open or destroyed
  lateUse,                  \* a DatabaseManager operation was run on the closed connection
  pv_running, pv_cap,       \* CameraPreviewPanel: is_running, cap (0: None, else a capture object)
  camOpen,                  \* the capture objects whose device is open
  previews,                 \* calls of start_preview so far
  spc,                      \* stop_preview on the GUI thread: its position
  tpc, tframe,              \* update_preview threads: position, a frame was read
  canvas,                   \* what the canvas of the panel shows
  pfault                    \* what a preview thread did with a handle that was gone

clockVars == <<date, tod>>
dbVars    == <<dbReady, table>>
galVars   == <<modelFile, known_encodings, known_names>>
loopVars  == <<pc, cap, marked, frame_count, encodings, annot, stopReq, out,
               owner, shown, lostPrints, crash, saveCalls, matchedOn, detectedOn,
               ignored, handles>>
recVars   == <<rpc, rargs, ret, lastOk, prevOk, changed>>
closeVars == <<conn, window, lateUse>>
guiCtl    == <<is_running, proc, current_session_id, sessions,
               recognized_count, unknown_count, wpc, events, dialog, closeVars>>
guiVars   == <<guiCtl, pipe>>
panelVars == <<pv_running, pv_cap, camOpen, previews, spc, tpc, tframe,
               canvas, pfault>>
vars      == <<clockVars, dbVars, galVars, loopVars, recVars, guiVars,
               panelVars>>

NoArgs == [student_id |-> <<>>, name |-> <<>>, date |-> 0, time |-> 0]
NoRet  == <<"none", "">>
NoKey  == <<>>

\* ------------------------------------------------------------ the database

\* a SELECT that never finds the row
HasRowNever(t, sid, d) == FALSE

\* SELECT * FROM attendance WHERE student_id = ? AND date = ?
HasRow(t, sid, d) ==
  \E r \in BagToSet(t) : r.student_id = sid /\ r.date = d

\* SELECT COUNT(*) FROM attendance WHERE student_id = ? AND date = ?
RowCount(t, sid, d) ==
  LET S == {r \in BagToSet(t) : r.student_id = sid /\ r.date = d}
  IN  BagCardinality([r \in S |-> t[r]])

\* INSERT INTO attendance, the row stored next to the others
AddRow(t, row) == t (+) SetToBag({row})

\* an attendance table created without the UNIQUE constraint
UniqueConflictNever(t, row) == FALSE

\* UNIQUE(student_id, date) of the attendance table
UniqueConflict(t, row) ==
  \E r \in BagToSet(t) :
     r.student_id = row.student_id /\ r.date = row.date

\* a derivation that counts no minutes within the late limit
LateMinutesGrace(t) ==
  IF t > ShiftStart + LateLimit * 60 THEN (t - ShiftStart) \div 60 ELSE 0

\* late_mins of record_attendance: whole minutes after 09:00:00
LateMinutes(t) ==
  IF t > ShiftStart THEN (t - ShiftStart) \div 60 ELSE 0

StatusOf(t) == IF LateMinutes(t) > LateLimit THEN "Late" ELSE "Present"

\* the row record_attendance inserts
RecorderRow(sid, n, d, t) ==
  [student_id |-> sid, name |-> n, date |-> d, time |-> t,
   status |-> StatusOf(t), late_minutes |-> LateMinutes(t)]

\* the row save_to_db inserts: status "Present", late_minutes by default 0
LoopRow(n, d, t) ==
  [student_id |-> StudentId(n), name |-> n, date |-> d, time |-> t,
   status |-> "Present", late_minutes |-> 0]

\* a plain INSERT into a table that lets the row in
InsertAlways(t, row) == AddRow(t, row)

\* INSERT OR IGNORE INTO attendance
InsertOrIgnore(t, row) ==
  IF UniqueConflict(t, row) THEN t ELSE AddRow(t, row)

\* DatabaseManager.__init__ / init_database: CREATE TABLE IF NOT EXISTS
InitDatabase ==
  /\ ~dbReady
  /\ dbReady' = TRUE
  /\ UNCHANGED <<table, clockVars, galVars, loopVars, recVars, panelVars, guiVars>>

\* midnight passes: datetime.now() is on the next day
Tick ==
  /\ date < MaxDay
  /\ date' = date + 1
  /\ tod' \in Times
  /\ UNCHANGED <<dbVars, galVars, loopVars, recVars, panelVars, guiVars>>

\* ------------------------------------- DatabaseManager.record_attendance

\* now = datetime.now(); the SELECT; "Already marked" when a row exists.
\* lastOk is the student_id and date of the caller's last call if that call
\* returned (True, status); prevOk says that this call repeats it.
RecSelect(c, n) ==
  LET sid == StudentId(n) IN
  /\ dbReady
  /\ rpc[c] = "idle"
  /\ prevOk' = [prevOk EXCEPT ![c] = (lastOk[c] = <<sid, date>>)]
  /\ IF HasRow(table, sid, date)
       THEN /\ ret' = [ret EXCEPT ![c] = <<"False", "Already marked">>]
            /\ changed' = [changed EXCEPT ![c] = FALSE]
            /\ lastOk' = [lastOk EXCEPT ![c] = NoKey]
            /\ UNCHANGED <<rpc, rargs>>
       ELSE /\ rpc' = [rpc EXCEPT ![c] = "insert"]
            /\ rargs' = [rargs EXCEPT ![c] =
                 [student_id |-> sid, name |-> n, date |-> date, time |-> tod]]
            /\ ret' = [ret EXCEPT ![c] = NoRet]
            /\ UNCHANGED <<changed, lastOk>>
  /\ UNCHANGED <<dbVars, clockVars, galVars, loopVars, guiVars, panelVars>>

\* the INSERT, with the date and time read before the SELECT; sqlite raises
\* IntegrityError when the row breaks UNIQUE(student_id, date), and nothing
\* in record_attendance catches it
RecInsert(c) ==
  LET a   == rargs[c]
      row == RecorderRow(a.student_id, a.name, a.date, a.time) IN
  /\ rpc[c] = "insert"
  /\ rpc' = [rpc EXCEPT ![c] = "idle"]
  /\ rargs' = [rargs EXCEPT ![c] = NoArgs]
  /\ IF UniqueConflict(table, row)
       THEN /\ table' = table
            /\ ret' = [ret EXCEPT ![c] = <<"raise", "IntegrityError">>]
            /\ lastOk' = [lastOk EXCEPT ![c] = NoKey]
       ELSE /\ table' = AddRow(table, row)
            /\ ret' = [ret EXCEPT ![c] = <<"True", row.status>>]
            /\ lastOk' = [lastOk EXCEPT ![c] = <<a.student_id, a.date>>]
  /\ changed' = [changed EXCEPT ![c] = (table' # table)]
  /\ UNCHANGED <<dbReady, prevOk, clockVars, galVars, loopVars, guiVars, panelVars>>

\* ------------------------------------------------------------ the matcher

\* face_distance: the norm of the difference, on a line
Dist(a, b) == IF a >= b THEN a - b ELSE b - a

\* a comparison that accepts one tenth more than the tolerance
compare_facesWide(known, e, tol) ==
  [i \in 1..Len(known) |-> Dist(known[i], e) <= tol + 1]

\* face_recognition.compare_faces(known_encodings, enc, tolerance=TOLERANCE)
compare_faces(known, e, tol) ==
  [i \in 1..Len(known) |-> Dist(known[i], e) <= tol]

\* True in matches
AnyTrue(matches) == \E i \in DOMAIN matches : matches[i]

\* an index lookup that returns the last True of the list
IndexOfTrueLast(matches) ==
  CHOOSE i \in DOMAIN matches :
     matches[i] /\ \A j \in DOMAIN matches : j > i => ~matches[j]

\* matches.index(True)
IndexOfTrue(matches) ==
  CHOOSE i \in DOMAIN matches :
     matches[i] /\ \A j \in DOMAIN matches : j < i => ~matches[j]

\* name = "Unknown"; if True in matches: name = known_names[matches.index(True)]
MatchName(known, names, e) ==
  LET matches == compare_faces(known, e, TOLERANCE) IN
  IF AnyTrue(matches) THEN names[IndexOfTrue(matches)] ELSE Unknown

\* --------------------------------------------------- the recognition process

\* encodings of the faces the camera sees while the loop runs
FaceEncs == {0, 8, 12, 20}

FaceSeqs == UNION {[1..k -> FaceEncs] : k \in 0..MaxFaces}

\* model.pkl of the runs: empty, or three people, two of them look-alikes
RunGalleries ==
  { [encodings |-> <<>>, names |-> <<>>],
    [encodings |-> <<0, 4, 12>>,
     names |-> << <<"A", " ", "b">>, <<"a", "_", "b">>, <<"c">> >>] }

NoShown == [count |-> 0, labels |-> <<>>]

\* save_to_db: a storage error (no attendance table) is caught and reported
save_to_db(t, ready, n, d, time) ==
  IF ready THEN InsertOrIgnore(t, LoopRow(n, d, time)) ELSE t

\* save_to_db(name), called by a recognition process
SaveToDb(n) ==
  /\ table' = save_to_db(table, dbReady, n, date, tod)
  /\ UNCHANGED <<dbReady, clockVars, galVars, loopVars, recVars, panelVars, guiVars>>

\* a skip test that detects on the frame after each multiple of 3
IsDetectionFrameShifted(n) == n % SkipFactor = 1

\* if frame_count % 3 != 0: show the raw frame and continue
IsDetectionFrame(n) == n % SkipFactor = 0

\* a loop that records every label it has not recorded yet, matched or not
ShouldRecordUnmatched(matched, nm, mk) == nm \notin mk

\* a loop that forgets to consult the marked set
ShouldRecordAlways(matched, nm, mk) == matched

\* if True in matches: ... if name not in marked:
ShouldRecord(matched, nm, mk) == matched /\ nm \notin mk

\* the lines recognize.py prints, each with the name it formats in
LineNoModel  == <<"[ERROR] model.pkl not found", <<>> >>
LineWaiting  == <<"[INFO] Waiting for camera...", <<>> >>
LineStarted  == <<"[INFO] Camera started", <<>> >>
LinePressQ   == <<"[INFO] Press Q to quit", <<>> >>
LineLost     == <<"[WARNING] Camera lost, reconnecting...", <<>> >>
LineClosing  == <<"[INFO] Closing camera...", <<>> >>
LineStopped  == <<"[INFO] Recognition stopped", <<>> >>
LineDbError  == <<"[DB ERROR] ", <<>> >>
LineSaved(n)  == <<"[DB] Saved: ", n>>
LineMarked(n) == <<"[INFO] Marked: ", n>>

\* what save_to_db(name) prints: the INSERT OR IGNORE went through, or the
\* exception it caught
SaveLines(ready, n) == IF ready THEN <<LineSaved(n)>> ELSE <<LineDbError>>

Live == {"load", "awaiting", "running", "detect"}

\* "Recognized:" in line or "Marked:" in line: of the printed lines, those
\* of LineMarked
HasMarked(line) == line[1] = "[INFO] Marked: "

\* "Unknown" in line: no fixed text of a printed line holds the word, a line
\* holds it when the name formatted in is "Unknown"
HasUnknown(line) == line[2] = Unknown

\* process_recognition_output(line) on the counters of the GUI
process_recognition_output(line, c) ==
  IF HasMarked(line) THEN [c EXCEPT !.recognized = @ + 1]
  ELSE IF HasUnknown(line) THEN [c EXCEPT !.unknown = @ + 1]
  ELSE c

NoCounts == [recognized |-> 0, unknown |-> 0]

\* the counters after process_recognition_output has seen the lines in turn
RECURSIVE CountLines(_, _)
CountLines(lines, c) ==
  IF lines = <<>> THEN c
  ELSE CountLines(Tail(lines), process_recognition_output(Head(lines), c))

\* the memory of a process that starts, and what is left of one that ended
Fresh ==
  /\ cap' = "none"
  /\ marked' = {}
  /\ frame_count' = 0
  /\ encodings' = <<>>
  /\ annot' = <<>>
  /\ shown' = NoShown
  /\ lostPrints' = 0
  /\ saveCalls' = [l \in Labels |-> 0]
  /\ matchedOn' = [l \in Labels |-> {}]
  /\ detectedOn' = {}
  /\ ignored' = {}
  /\ stopReq' = FALSE

\* cap.release(): the handle of the capture object is closed
ReleaseNothing(h) == h

Release(h) == h - 1

\* the process has ended: its window and its memory are gone, the
\* observations of the run end with it, nothing writes to its stdout any
\* more; handles keeps the camera handles it left to the system to close
Gone ==
  /\ Fresh
  /\ owner' = 0

\* print(..., flush=True): the lines go to the terminal, or into the pipe of
\* the GUI worker if the pipe has room for them
Emit(lines) ==
  /\ out' = lines
  /\ IF owner = 0
       THEN UNCHANGED pipe
       ELSE /\ Len(pipe[owner]) + Len(lines) <= MaxPipe
            /\ pipe' = [pipe EXCEPT ![owner] = @ \o lines]

\* train_model.py: pickle.dump(data, f) writes model.pkl
TrainModel ==
  /\ ~modelFile
  /\ modelFile' = TRUE
  /\ UNCHANGED <<known_encodings, known_names>>
  /\ UNCHANGED <<clockVars, dbVars, loopVars, recVars, panelVars, guiVars>>

\* python recognize.py: a new process
Start ==
  /\ pc \notin Live
  /\ pc' = "load"
  /\ Fresh
  /\ handles' = 0
  /\ owner' = 0
  /\ crash' = "none"
  /\ Emit(<<>>)
  /\ UNCHANGED <<clockVars, dbVars, galVars, recVars, panelVars, guiCtl>>

\* the user presses q: the key waits for the next cv2.waitKey of the window
PressQ ==
  /\ pc \in {"awaiting", "running", "detect"}
  /\ ~stopReq
  /\ stopReq' = TRUE
  /\ UNCHANGED <<pc, cap, marked, frame_count, encodings, annot, shown,
                 lostPrints, crash, saveCalls, matchedOn, detectedOn, out,
                 owner, pipe, ignored, handles>>
  /\ UNCHANGED <<clockVars, dbVars, galVars, recVars, panelVars, guiCtl>>

\* a loader that goes on without model.pkl
ModelPresentAlways(exists) == TRUE

\* os.path.exists(MODEL_FILE)
ModelPresent(exists) == exists

\* if not os.path.exists(MODEL_FILE): print; sys.exit(1)
LoadModel ==
  /\ pc = "load"
  /\ IF ModelPresent(modelFile)
       THEN pc' = "awaiting" /\ Emit(<<>>)
       ELSE pc' = "exited" /\ Emit(<<LineNoModel>>)
  /\ UNCHANGED <<cap, marked, frame_count, encodings, annot, shown,
                 lostPrints, crash, saveCalls, matchedOn, detectedOn, stopReq,
                 owner, ignored, handles>>
  /\ UNCHANGED <<clockVars, dbVars, galVars, recVars, panelVars, guiCtl>>

\* while cap is None: cap = open_camera(); "Waiting for camera..."; no
\* window exists yet, a key pressed meanwhile reaches no waitKey
WaitCamera ==
  /\ pc = "awaiting"
  /\ \E ok \in BOOLEAN :
       IF ok THEN /\ cap' = "open"
                  /\ handles' = handles + 1
                  /\ pc' = "running"
                  /\ Emit(<<LineStarted, LinePressQ>>)
             ELSE /\ cap' = "none"
                  /\ handles' = handles
                  /\ pc' = "awaiting"
                  /\ Emit(<<LineWaiting>>)
  /\ stopReq' = FALSE
  /\ UNCHANGED <<marked, frame_count, encodings, annot, shown,
                 lostPrints, crash, saveCalls, matchedOn, detectedOn, owner,
                 ignored>>
  /\ UNCHANGED <<clockVars, dbVars, galVars, recVars, panelVars, guiCtl>>

\* cap.read() on cap = None: AttributeError, nothing catches it
ReadCrash ==
  /\ pc = "running"
  /\ cap = "none"
  /\ pc' = "crashed"
  /\ crash' = "cap_none"
  /\ Gone
  /\ UNCHANGED handles
  /\ Emit(<<>>)
  /\ UNCHANGED <<clockVars, dbVars, galVars, recVars, panelVars, guiCtl>>

\* not ret: "Camera lost, reconnecting..."; cap.release(); cap = open_camera();
\* continue
ReadFail ==
  /\ pc = "running"
  /\ cap = "open"
  /\ lostPrints < MaxLost
  /\ lostPrints' = lostPrints + 1
  /\ \E ok \in BOOLEAN :
       /\ cap' = IF ok THEN "open" ELSE "none"
       /\ handles' = Release(handles) + (IF ok THEN 1 ELSE 0)
  /\ Emit(<<LineLost>>)
  /\ UNCHANGED <<pc, marked, frame_count, encodings, annot, shown,
                 crash, saveCalls, matchedOn, detectedOn, stopReq, owner,
                 ignored>>
  /\ UNCHANGED <<clockVars, dbVars, galVars, recVars, panelVars, guiCtl>>

\* break; print "Closing camera..."; cap.release(); "Recognition stopped"
Cleanup ==
  /\ pc' = "stopped"
  /\ Gone
  /\ handles' = Release(handles)
  /\ Emit(<<LineClosing, LineStopped>>)
  /\ UNCHANGED crash

\* a frame whose count is no multiple of 3: imshow of the raw frame, waitKey
ReadSkip ==
  /\ pc = "running"
  /\ cap = "open"
  /\ frame_count < MaxFrames
  /\ ~IsDetectionFrame(frame_count + 1)
  /\ IF stopReq
       THEN Cleanup
       ELSE /\ frame_count' = frame_count + 1
            /\ lostPrints' = 0
            /\ shown' = [count |-> frame_count', labels |-> <<>>]
            /\ Emit(<<>>)
            /\ UNCHANGED <<pc, cap, stopReq, marked, encodings, annot,
                           crash, saveCalls, matchedOn, detectedOn, owner,
                           ignored, handles>>
  /\ UNCHANGED <<clockVars, dbVars, galVars, recVars, panelVars, guiCtl>>

\* every third frame: face_locations and face_encodings
ReadDetect ==
  /\ pc = "running"
  /\ cap = "open"
  /\ frame_count < MaxFrames
  /\ frame_count' = frame_count + 1
  /\ IsDetectionFrame(frame_count')
  /\ lostPrints' = 0
  /\ detectedOn' = detectedOn \cup {frame_count'}
  /\ encodings' \in FaceSeqs
  /\ annot' = <<>>
  /\ pc' = "detect"
  /\ Emit(<<>>)
  /\ UNCHANGED <<cap, marked, shown, crash, saveCalls, matchedOn, stopReq,
                 owner, ignored, handles>>
  /\ UNCHANGED <<clockVars, dbVars, galVars, recVars, panelVars, guiCtl>>

\* every third frame, cvtColor, face_locations or face_encodings raising:
\* no try surrounds them, the traceback ends the process
DetectError ==
  /\ pc = "running"
  /\ cap = "open"
  /\ frame_count < MaxFrames
  /\ IsDetectionFrame(frame_count + 1)
  /\ pc' = "crashed"
  /\ crash' = "detect"
  /\ Gone
  /\ UNCHANGED handles
  /\ Emit(<<>>)
  /\ UNCHANGED <<clockVars, dbVars, galVars, recVars, panelVars, guiCtl>>

\* for enc, box in zip(encodings, faces): one face of the frame is matched,
\* marked and recorded the first time, and annotated
ProcessFace ==
  LET e       == encodings[Len(annot) + 1]
      matches == compare_faces(known_encodings, e, TOLERANCE)
      nm      == MatchName(known_encodings, known_names, e)
      first   == ShouldRecord(AnyTrue(matches), nm, marked)
  IN
  /\ pc = "detect"
  /\ Len(annot) < Len(encodings)
  /\ matchedOn' = IF AnyTrue(matches)
                     THEN [matchedOn EXCEPT ![nm] = @ \cup {frame_count}]
                     ELSE matchedOn
  /\ marked' = IF first THEN marked \cup {nm} ELSE marked
  /\ table' = IF first THEN save_to_db(table, dbReady, nm, date, tod) ELSE table
  /\ saveCalls' = IF first THEN [saveCalls EXCEPT ![nm] = @ + 1] ELSE saveCalls
  /\ ignored' = IF first /\ dbReady /\ UniqueConflict(table, LoopRow(nm, date, tod))
                  THEN ignored \cup {nm} ELSE ignored
  /\ Emit(IF first THEN SaveLines(dbReady, nm) \o <<LineMarked(nm)>> ELSE <<>>)
  /\ annot' = Append(annot, nm)
  /\ UNCHANGED <<pc, cap, frame_count, encodings, shown, lostPrints, crash,
                 detectedOn, stopReq, owner, handles>>
  /\ UNCHANGED <<dbReady, clockVars, galVars, recVars, panelVars, guiCtl>>

\* imshow of the annotated frame, waitKey; the frame's faces and labels are
\* not read again after the iteration
Present ==
  /\ pc = "detect"
  /\ Len(annot) = Len(encodings)
  /\ IF stopReq
       THEN Cleanup
       ELSE /\ shown' = [count |-> frame_count, labels |-> annot]
            /\ encodings' = <<>>
            /\ annot' = <<>>
            /\ pc' = "running"
            /\ Emit(<<>>)
            /\ UNCHANGED <<cap, stopReq, marked, frame_count, lostPrints,
                           crash, saveCalls, matchedOn, detectedOn, owner,
                           ignored, handles>>
  /\ UNCHANGED <<clockVars, dbVars, galVars, recVars, panelVars, guiCtl>>

\* ------------------------------------------- AttendanceSystemGUI of gui.py

\* db.create_session(): the row of a session that has not ended; ends counts
\* the calls of end_session for it
NewSession == [ended |-> FALSE, recognized |-> 0, unknown |-> 0, ends |-> 0]

\* cleanup_after_stop: is_running = False; db.end_session(current_session_id,
\* recognized_count, unknown_count) if a session is set
CleanupAfterStop ==
  /\ is_running' = FALSE
  /\ sessions' =
       IF current_session_id # 0
         THEN [sessions EXCEPT ![current_session_id] =
                 [ended |-> TRUE, recognized |-> recognized_count,
                  unknown |-> unknown_count, ends |-> @.ends + 1]]
         ELSE sessions

\* DatabaseManager.execute: conn.cursor() works on an open connection and
\* raises ProgrammingError on a closed one
DbOp(c) == c = "open"

\* a DatabaseManager operation that raised: nothing was stored
Raised ==
  /\ lateUse' = TRUE
  /\ UNCHANGED <<conn, window>>

\* start_attendance on the GUI thread: refused while running and without
\* model.pkl; else a session is created, the counters are reset and a
\* run_recognition thread is started. The session_id is the time in whole
\* seconds and UNIQUE: create_session within the second of the session
\* before it raises IntegrityError and the handler ends there.
StartAttendance ==
  /\ Len(sessions) + 1 \in DOMAIN wpc
  /\ \E sameSecond \in {FALSE, sessions # <<>>} :
       IF is_running
       THEN /\ dialog' = "already running"
            /\ UNCHANGED <<current_session_id, sessions, recognized_count,
                           unknown_count, wpc, closeVars>>
       ELSE IF ~ModelPresent(modelFile)
       THEN /\ dialog' = "model.pkl not found"
            /\ UNCHANGED <<current_session_id, sessions, recognized_count,
                           unknown_count, wpc, closeVars>>
       ELSE IF ~DbOp(conn)
       THEN /\ Raised
            /\ UNCHANGED <<current_session_id, sessions, recognized_count,
                           unknown_count, wpc, dialog>>
       ELSE IF sameSecond
       THEN UNCHANGED <<current_session_id, sessions, recognized_count,
                        unknown_count, wpc, dialog, closeVars>>
       ELSE /\ sessions' = Append(sessions, NewSession)
            /\ current_session_id' = Len(sessions) + 1
            /\ recognized_count' = 0
            /\ unknown_count' = 0
            /\ wpc' = [wpc EXCEPT ![Len(sessions) + 1] = "spawn"]
            /\ UNCHANGED <<dialog, closeVars>>
  /\ UNCHANGED <<is_running, proc, events, pipe>>
  /\ UNCHANGED <<clockVars, dbVars, galVars, loopVars, recVars, panelVars>>

\* run_recognition: log_message, subprocess.Popen of recognize.py with
\* stdout=PIPE, then is_running = True. The model follows one subprocess at a
\* time: the Popen of a thread waits for the process before it to end. When
\* log_message raises, the except branch calls cleanup_after_stop, whose
\* end_session raises again and ends the thread.
WorkerSpawn(w) ==
  /\ wpc[w] = "spawn"
  /\ IF DbOp(conn)
       THEN /\ pc \notin Live
            /\ pc' = "load"
            /\ Fresh
            /\ handles' = 0
            /\ crash' = "none"
            /\ out' = <<>>
            /\ owner' = w
            /\ pipe' = [pipe EXCEPT ![w] = <<>>]
            /\ proc' = w
            /\ is_running' = TRUE
            /\ wpc' = [wpc EXCEPT ![w] = "reading"]
            /\ UNCHANGED closeVars
       ELSE /\ is_running' = FALSE
            /\ wpc' = [wpc EXCEPT ![w] = "none"]
            /\ Raised
            /\ UNCHANGED <<loopVars, pipe, proc>>
  /\ UNCHANGED <<current_session_id, sessions, recognized_count,
                 unknown_count, events, dialog>>
  /\ UNCHANGED <<clockVars, dbVars, galVars, recVars, panelVars>>

\* for line in self.recognition_process.stdout: root.after(0,
\* process_recognition_output(line))
WorkerRead(w) ==
  /\ wpc[w] = "reading"
  /\ pipe[w] # <<>>
  /\ Len(events) < MaxEvents
  /\ events' = Append(events, Head(pipe[w]))
  /\ pipe' = [pipe EXCEPT ![w] = Tail(@)]
  /\ UNCHANGED <<is_running, proc, current_session_id, sessions,
                 recognized_count, unknown_count, wpc, dialog, closeVars>>
  /\ UNCHANGED <<clockVars, dbVars, galVars, loopVars, recVars, panelVars>>

\* cleanup_after_stop on a thread: on the closed connection is_running is
\* reset and end_session raises
CleanupOrRaise ==
  IF DbOp(conn) \/ current_session_id = 0
    THEN CleanupAfterStop /\ UNCHANGED closeVars
    ELSE is_running' = FALSE /\ Raised /\ UNCHANGED sessions

\* the end of the subprocess's stdout: recognition_process.wait();
\* cleanup_after_stop() on the worker thread
WorkerEof(w) ==
  /\ wpc[w] = "reading"
  /\ pipe[w] = <<>>
  /\ owner # w
  /\ CleanupOrRaise
  /\ wpc' = [wpc EXCEPT ![w] = "none"]
  /\ UNCHANGED <<proc, current_session_id, recognized_count, unknown_count,
                 events, dialog, pipe>>
  /\ UNCHANGED <<clockVars, dbVars, galVars, loopVars, recVars, panelVars>>

\* process_recognition_output(line) on the GUI thread: log_message(line)
\* first, which raises on the closed connection before anything is counted
ProcessOutput ==
  LET c == process_recognition_output(Head(events),
             [recognized |-> recognized_count, unknown |-> unknown_count])
  IN
  /\ events # <<>>
  /\ IF DbOp(conn)
       THEN /\ recognized_count' = c.recognized
            /\ unknown_count' = c.unknown
            /\ UNCHANGED closeVars
       ELSE /\ Raised
            /\ UNCHANGED <<recognized_count, unknown_count>>
  /\ events' = Tail(events)
  /\ UNCHANGED <<is_running, proc, current_session_id, sessions, wpc,
                 dialog, pipe>>
  /\ UNCHANGED <<clockVars, dbVars, galVars, loopVars, recVars, panelVars>>

\* recognition_process.terminate(), wait, kill() after three seconds,
\* cleanup_after_stop(). The subprocess is ended where it stands; the system
\* closes its camera, the lines after the loop are not run.
KillAndCleanup ==
  /\ IF owner = proc /\ pc \in Live
       THEN /\ pc' = "killed"
            /\ Gone
            /\ out' = <<>>
            /\ UNCHANGED <<crash, handles>>
       ELSE UNCHANGED loopVars
  /\ CleanupAfterStop

\* stop_attendance on the GUI thread: log_message("Stopping recognition..."),
\* then the kill and the cleanup. On the closed connection log_message
\* raises, and raises again in the except branch: nothing is stopped.
StopAttendance ==
  /\ is_running
  /\ proc # 0
  /\ IF DbOp(conn)
       THEN KillAndCleanup /\ UNCHANGED closeVars
       ELSE Raised /\ UNCHANGED <<loopVars, is_running, sessions>>
  /\ UNCHANGED <<proc, current_session_id, recognized_count, unknown_count,
                 wpc, events, dialog, pipe>>
  /\ UNCHANGED <<clockVars, dbVars, galVars, recVars, panelVars>>

\* on_closing: while recognition runs the user is asked; on yes
\* stop_attendance() and a sleep, on no the window stays. Then db.close(),
\* log_message("Application closed") and root.destroy(): log_message calls
\* db.add_log, and root.destroy() is reached if that returns.
OnClosing(response) ==
  /\ window = "open"
  /\ IF is_running /\ ~response
       THEN UNCHANGED <<loopVars, is_running, sessions, closeVars>>
       ELSE IF is_running /\ proc # 0 /\ ~DbOp(conn)
       THEN Raised /\ UNCHANGED <<loopVars, is_running, sessions>>
       ELSE /\ IF is_running /\ proc # 0
                 THEN KillAndCleanup
                 ELSE UNCHANGED <<loopVars, is_running, sessions>>
            /\ conn' = "closed"
            /\ IF DbOp(conn')
                 THEN window' = "destroyed" /\ UNCHANGED lateUse
                 ELSE lateUse' = TRUE /\ UNCHANGED window
  /\ UNCHANGED <<proc, current_session_id, recognized_count, unknown_count,
                 wpc, events, dialog, pipe>>
  /\ UNCHANGED <<clockVars, dbVars, galVars, recVars, panelVars>>

\* ---------------------------------------------- CameraPreviewPanel of gui.py

\* all but the panel
restVars == <<clockVars, dbVars, galVars, loopVars, recVars, guiVars>>

\* start_preview: cap = cv2.VideoCapture(0); "Cannot open camera!" and return
\* if it is not opened; else is_running = True and an update_preview thread
\* is started. The Start button is enabled when no preview runs.
StartPreview ==
  /\ ~pv_running
  /\ spc = "idle"
  /\ previews < MaxPreviews
  /\ previews' = previews + 1
  /\ pv_cap' = previews'
  /\ \E ok \in BOOLEAN :
       IF ok THEN /\ camOpen' = camOpen \cup {previews'}
                  /\ pv_running' = TRUE
                  /\ tpc' = [tpc EXCEPT ![previews'] = "loop"]
             ELSE UNCHANGED <<camOpen, pv_running, tpc>>
  /\ UNCHANGED <<spc, tframe, canvas, pfault>>
  /\ UNCHANGED restVars

\* stop_preview: self.is_running = False
StopFlag ==
  /\ pv_running
  /\ spc = "idle"
  /\ pv_running' = FALSE
  /\ spc' = "release"
  /\ UNCHANGED <<pv_cap, camOpen, previews, tpc, tframe, canvas, pfault>>
  /\ UNCHANGED restVars

\* stop_preview: if self.cap: self.cap.release()
StopRelease ==
  /\ spc = "release"
  /\ IF pv_cap # 0
       THEN camOpen' = camOpen \ {pv_cap} /\ spc' = "clear"
       ELSE UNCHANGED camOpen /\ spc' = "widgets"
  /\ UNCHANGED <<pv_running, pv_cap, previews, tpc, tframe, canvas, pfault>>
  /\ UNCHANGED restVars

\* stop_preview: self.cap = None
StopClear ==
  /\ spc = "clear"
  /\ pv_cap' = 0
  /\ spc' = "widgets"
  /\ UNCHANGED <<pv_running, camOpen, previews, tpc, tframe, canvas, pfault>>
  /\ UNCHANGED restVars

\* stop_preview: the buttons, the status label, show_placeholder(); return
StopWidgets ==
  /\ spc = "widgets"
  /\ canvas' = "placeholder"
  /\ spc' = "idle"
  /\ UNCHANGED <<pv_running, pv_cap, camOpen, previews, tpc, tframe, pfault>>
  /\ UNCHANGED restVars

\* update_preview, while self.is_running ...
LoopRunning(t) ==
  /\ tpc[t] = "loop"
  /\ tpc' = [tpc EXCEPT ![t] = IF pv_running THEN "cap" ELSE "done"]
  /\ UNCHANGED <<pv_running, pv_cap, camOpen, previews, spc, tframe, canvas,
                 pfault>>
  /\ UNCHANGED restVars

\* ... and self.cap ...
LoopCap(t) ==
  /\ tpc[t] = "cap"
  /\ tpc' = [tpc EXCEPT ![t] = IF pv_cap # 0 THEN "opened" ELSE "done"]
  /\ UNCHANGED <<pv_running, pv_cap, camOpen, previews, spc, tframe, canvas,
                 pfault>>
  /\ UNCHANGED restVars

\* ... and self.cap.isOpened(): self.cap is read again; on None the call
\* raises AttributeError and the thread ends
LoopOpened(t) ==
  /\ tpc[t] = "opened"
  /\ IF pv_cap = 0
       THEN /\ tpc' = [tpc EXCEPT ![t] = "dead"]
            /\ pfault' = "None"
       ELSE /\ tpc' = [tpc EXCEPT ![t] =
                         IF pv_cap \in camOpen THEN "read" ELSE "done"]
            /\ UNCHANGED pfault
  /\ UNCHANGED <<pv_running, pv_cap, camOpen, previews, spc, tframe, canvas>>
  /\ UNCHANGED restVars

\* ret, frame = self.cap.read(): self.cap is read again; on None the call
\* raises AttributeError, on a released capture it returns no frame, on an
\* open one it returns a frame or fails
LoopRead(t) ==
  /\ tpc[t] = "read"
  /\ IF pv_cap = 0
       THEN /\ tpc' = [tpc EXCEPT ![t] = "dead"]
            /\ pfault' = "None"
            /\ UNCHANGED tframe
       ELSE IF pv_cap \notin camOpen
       THEN /\ tpc' = [tpc EXCEPT ![t] = "sleep"]
            /\ pfault' = "released"
            /\ UNCHANGED tframe
       ELSE /\ \E got \in BOOLEAN :
                 /\ tframe' = [tframe EXCEPT ![t] = got]
                 /\ tpc' = [tpc EXCEPT ![t] = IF got THEN "draw" ELSE "sleep"]
            /\ UNCHANGED pfault
  /\ UNCHANGED <<pv_running, pv_cap, camOpen, previews, spc, canvas>>
  /\ UNCHANGED restVars

\* if ret: the frame is converted and drawn: canvas.delete("all");
\* canvas.create_image(...)
LoopDraw(t) ==
  /\ tpc[t] = "draw"
  /\ canvas' = "frame"
  /\ tframe' = [tframe EXCEPT ![t] = FALSE]
  /\ tpc' = [tpc EXCEPT ![t] = "sleep"]
  /\ UNCHANGED <<pv_running, pv_cap, camOpen, previews, spc, pfault>>
  /\ UNCHANGED restVars

\* time.sleep(0.03), back to the loop test
LoopSleep(t) ==
  /\ tpc[t] = "sleep"
  /\ tpc' = [tpc EXCEPT ![t] = "loop"]
  /\ UNCHANGED <<pv_running, pv_cap, camOpen, previews, spc, tframe, canvas,
                 pfault>>
  /\ UNCHANGED restVars

\* ------------------------------------------------------ the specifications

\* CameraPreviewPanel.__init__: no capture, no thread, the placeholder
PanelIdle ==
  /\ pv_running = FALSE
  /\ pv_cap = 0
  /\ camOpen = {}
  /\ previews = 0
  /\ spc = "idle"
  /\ tpc = [t \in 1..MaxPreviews |-> "none"]
  /\ tframe = [t \in 1..MaxPreviews |-> FALSE]
  /\ canvas = "placeholder"
  /\ pfault = "none"

\* no recognition process has run yet
LoopOff ==
  /\ pc = "off"
  /\ cap = "none"
  /\ marked = {}
  /\ frame_count = 0
  /\ encodings = <<>>
  /\ annot = <<>>
  /\ shown = NoShown
  /\ lostPrints = 0
  /\ crash = "none"
  /\ saveCalls = [l \in Labels |-> 0]
  /\ matchedOn = [l \in Labels |-> {}]
  /\ detectedOn = {}
  /\ ignored = {}
  /\ handles = 0
  /\ stopReq = FALSE
  /\ out = <<>>
  /\ owner = 0

\* AttendanceSystemGUI.__init__: nothing runs, no session; W numbers the
\* run_recognition threads to come
GuiIdleWith(W) ==
  /\ is_running = FALSE
  /\ proc = 0
  /\ current_session_id = 0
  /\ sessions = <<>>
  /\ recognized_count = 0
  /\ unknown_count = 0
  /\ wpc = [w \in W |-> "none"]
  /\ pipe = [w \in W |-> <<>>]
  /\ events = <<>>
  /\ dialog = "none"
  /\ conn = "open"
  /\ window = "open"
  /\ lateUse = FALSE

GuiIdle == GuiIdleWith(Workers)

\* no caller of record_attendance has called yet
RecIdle ==
  /\ rpc = [c \in Recorders |-> "idle"]
  /\ rargs = [c \in Recorders |-> NoArgs]
  /\ ret = [c \in Recorders |-> NoRet]
  /\ lastOk = [c \in Recorders |-> NoKey]
  /\ prevOk = [c \in Recorders |-> FALSE]
  /\ changed = [c \in Recorders |-> FALSE]

Init ==
  /\ date = 0
  /\ tod \in Times
  /\ dbReady = FALSE
  /\ table = EmptyBag
  /\ modelFile \in BOOLEAN
  /\ \E g \in RunGalleries :
       known_encodings = g.encodings /\ known_names = g.names
  /\ LoopOff
  /\ RecIdle
  /\ PanelIdle
  /\ GuiIdle

Next ==
  \/ InitDatabase
  \/ Tick
  \/ TrainModel
  \/ Start
  \/ PressQ
  \/ LoadModel
  \/ WaitCamera
  \/ ReadCrash
  \/ ReadFail
  \/ ReadSkip
  \/ ReadDetect
  \/ DetectError
  \/ ProcessFace
  \/ Present

Spec == Init /\ [][Next]_vars

\* the writers of the attendance table: callers of record_attendance and
\* recognition processes calling save_to_db
DbNext ==
  \/ InitDatabase
  \/ Tick
  \/ \E c \in Recorders, n \in Names : RecSelect(c, n)
  \/ \E c \in Recorders : RecInsert(c)
  \/ \E n \in Names : SaveToDb(n)

\* no recognition process of this model runs here: its gallery is left empty
DbInit ==
  /\ Init
  /\ ~modelFile
  /\ known_names = <<>>

DbSpec == DbInit /\ [][DbNext]_vars

\* record_attendance at the times of day around the shift start: from one
\* minute before 09:00:00 to MaxMinute minutes after it, at the first and
\* the last second of each minute
ShiftTimes ==
  {ShiftStart + 60 * m + sec : m \in (0 - 1)..MaxMinute, sec \in {0, 59}}

LateInit ==
  /\ date = 0
  /\ tod \in ShiftTimes
  /\ dbReady = TRUE
  /\ table = EmptyBag
  /\ modelFile = FALSE
  /\ known_encodings = <<>>
  /\ known_names = <<>>
  /\ LoopOff
  /\ RecIdle
  /\ PanelIdle
  /\ GuiIdle

LateNext ==
  \/ \E c \in Recorders, n \in Names : RecSelect(c, n)
  \/ \E c \in Recorders : RecInsert(c)

LateSpec == LateInit /\ [][LateNext]_vars

\* model.pkl of the runs next to the GUI: one person
GuiGallery == [encodings |-> <<12>>, names |-> << <<"c">> >>]

\* the GUI, with its database in place, and the recognition processes it or
\* a terminal starts
GuiInit ==
  /\ date = 0
  /\ tod \in Times
  /\ dbReady = TRUE
  /\ table = EmptyBag
  /\ modelFile \in BOOLEAN
  /\ known_encodings = GuiGallery.encodings
  /\ known_names = GuiGallery.names
  /\ LoopOff
  /\ RecIdle
  /\ PanelIdle
  /\ GuiIdle

GuiNext ==
  \/ TrainModel
  \/ StartAttendance
  \/ \E w \in DOMAIN wpc : WorkerSpawn(w)
  \/ \E w \in DOMAIN wpc : WorkerRead(w)
  \/ \E w \in DOMAIN wpc : WorkerEof(w)
  \/ ProcessOutput
  \/ StopAttendance
  \/ Start
  \/ PressQ
  \/ LoadModel
  \/ WaitCamera
  \/ ReadCrash
  \/ ReadFail
  \/ ReadSkip
  \/ ReadDetect
  \/ DetectError
  \/ ProcessFace
  \/ Present

GuiSpec == GuiInit /\ [][GuiNext]_vars

\* the matcher on its own: any gallery of up to MaxGallery entries, one face
\* on a detection frame
Coords == 0..MaxCoord

MatchGalleries ==
  UNION {[encodings : [1..k -> Coords], names : [1..k -> Names]] :
           k \in 0..MaxGallery}

MatchInit ==
  /\ date = 0
  /\ tod \in Times
  /\ dbReady = TRUE
  /\ table = EmptyBag
  /\ modelFile = TRUE
  /\ \E g \in MatchGalleries :
       known_encodings = g.encodings /\ known_names = g.names
  /\ pc = "detect"
  /\ cap = "open"
  /\ marked = {}
  /\ frame_count = SkipFactor
  /\ encodings \in [1..1 -> Coords]
  /\ annot = <<>>
  /\ shown = [count |-> SkipFactor - 1, labels |-> <<>>]
  /\ lostPrints = 0
  /\ crash = "none"
  /\ saveCalls = [l \in Labels |-> 0]
  /\ matchedOn = [l \in Labels |-> {}]
  /\ detectedOn = {SkipFactor}
  /\ ignored = {}
  /\ handles = 1
  /\ stopReq = FALSE
  /\ out = <<>>
  /\ owner = 0
  /\ RecIdle
  /\ PanelIdle
  /\ GuiIdle

MatchNext ==
  \/ ProcessFace
  \/ Present

MatchSpec == MatchInit /\ [][MatchNext]_vars

\* the camera preview panel: the GUI thread in start_preview and
\* stop_preview, and the update_preview threads
PreviewNext ==
  \/ StartPreview
  \/ StopFlag
  \/ StopRelease
  \/ StopClear
  \/ StopWidgets
  \/ \E t \in DOMAIN tpc : LoopRunning(t)
  \/ \E t \in DOMAIN tpc : LoopCap(t)
  \/ \E t \in DOMAIN tpc : LoopOpened(t)
  \/ \E t \in DOMAIN tpc : LoopRead(t)
  \/ \E t \in DOMAIN tpc : LoopDraw(t)
  \/ \E t \in DOMAIN tpc : LoopSleep(t)

PreviewInit ==
  /\ GuiInit
  /\ ~modelFile

PreviewSpec == PreviewInit /\ [][PreviewNext]_vars

\* the GUI up to the closing of its window, with model.pkl in place
CloseNext ==
  \/ StartAttendance
  \/ \E w \in DOMAIN wpc : WorkerSpawn(w)
  \/ \E w \in DOMAIN wpc : WorkerRead(w)
  \/ \E w \in DOMAIN wpc : WorkerEof(w)
  \/ ProcessOutput
  \/ StopAttendance
  \/ \E response \in BOOLEAN : OnClosing(response)
  \/ PressQ
  \/ LoadModel
  \/ WaitCamera
  \/ ReadCrash
  \/ ReadFail
  \/ ReadSkip
  \/ ReadDetect
  \/ DetectError
  \/ ProcessFace
  \/ Present

CloseInit ==
  /\ GuiInit
  /\ modelFile

CloseSpec == CloseInit /\ [][CloseNext]_vars

\* two presses of the Start button: the GUI with model.pkl in place, the
\* run_recognition threads of two sessions, and subprocesses whose camera
\* opens and delivers no frame
RaceWorkers == {1, 2}

RaceInit ==
  /\ date = 0
  /\ tod \in Times
  /\ dbReady = TRUE
  /\ table = EmptyBag
  /\ modelFile = TRUE
  /\ known_encodings = GuiGallery.encodings
  /\ known_names = GuiGallery.names
  /\ LoopOff
  /\ RecIdle
  /\ PanelIdle
  /\ GuiIdleWith(RaceWorkers)

RaceNext ==
  \/ StartAttendance
  \/ \E w \in DOMAIN wpc : WorkerSpawn(w)
  \/ \E w \in DOMAIN wpc : WorkerRead(w)
  \/ \E w \in DOMAIN wpc : WorkerEof(w)
  \/ ProcessOutput
  \/ StopAttendance
  \/ PressQ
  \/ LoadModel
  \/ WaitCamera
  \/ ReadCrash
  \/ ReadFail

RaceSpec == RaceInit /\ [][RaceNext]_vars

\* ------------------------------------------------------------ the claims

Dates == 0..MaxDay

\* C1: the attendance table never holds two rows with the same student_id
\* and date, whatever the interleaving of save_to_db and record_attendance.
C1_OneRowPerStudentDate ==
  \A sid \in StudentIds, d \in Dates : RowCount(table, sid, d) <= 1

\* a recorder's INSERT met a row another writer had stored meanwhile, and
\* two students have a row each on one day
C1_Witness ==
  /\ \E c \in Recorders : ret[c][1] = "raise"
  /\ \E r, q \in BagToSet(table) :
        r.student_id # q.student_id /\ r.date = q.date

\* C2: a call of record_attendance that returns (True, status) has stored one
\* row; a call that follows, by the same caller, a call for the same
\* student_id and date that returned (True, status) returns
\* (False, "Already marked") and leaves the table as it was, with one row.
C2_State ==
  \A c \in Recorders :
     /\ ret[c][1] = "True" =>
           /\ changed[c]
           /\ RowCount(table, lastOk[c][1], lastOk[c][2]) = 1
     /\ rpc[c] = "idle" /\ prevOk[c] =>
           /\ ret[c] = <<"False", "Already marked">>
           /\ ~changed[c]

\* the step in which a caller whose last call returned (True, status) calls
\* again for the same student_id and date
C2_Step ==
  \A c \in Recorders :
     /\ rpc[c] = "idle"
     /\ lastOk[c] # NoKey
     /\ prevOk'[c]
     /\ ret'[c] # ret[c] \/ rpc'[c] # rpc[c]
     => /\ ret'[c] = <<"False", "Already marked">>
        /\ table' = table
        /\ RowCount(table', lastOk[c][1], lastOk[c][2]) = 1

C2_RecorderIdempotent == []C2_State /\ [][C2_Step]_vars

C2_Witness ==
  \E c \in Recorders :
     /\ rpc[c] = "idle"
     /\ prevOk[c]
     /\ ret[c] = <<"False", "Already marked">>
     /\ ~changed[c]

\* C3: every finished attempt to record a (student_id, date) either stored
\* the row or reported "Already marked"; none ended in a storage error that
\* nothing handles, and the row is there once.
C3_WritesSerialized ==
  /\ \A c \in Recorders :
        rpc[c] = "idle" /\ ret[c] # NoRet =>
           /\ ret[c][1] \in {"True", "False"}
           /\ ret[c][1] = "True" <=> changed[c]
  /\ \A sid \in StudentIds, d \in Dates : RowCount(table, sid, d) <= 1

\* C4: in a run, save_to_db has been called once for each label matched on
\* a detection frame and never for any other label.
C4_SessionDedup ==
  \A l \in Labels :
     saveCalls[l] = IF matchedOn[l] # {} THEN 1 ELSE 0

\* one label matched on frame 3 and again on frame 6
C4_Witness ==
  \E l \in Labels :
     /\ matchedOn[l] = {SkipFactor, 2 * SkipFactor}
     /\ saveCalls[l] = 1

\* C5: detection ran on exactly the frames 3, 6, ... read so far; a frame
\* whose count is no multiple of 3 is shown without annotation; faces are
\* matched only on a multiple of 3; a failed read leaves the count alone and
\* the count never goes back while the process runs.
C5_SkipState ==
  /\ detectedOn = {n \in 1..frame_count : n % 3 = 0}
  /\ shown.count % 3 # 0 => shown.labels = <<>>
  /\ pc = "detect" => frame_count % 3 = 0
  /\ \A l \in Labels : \A n \in matchedOn[l] : n % 3 = 0

C5_SkipStep ==
  /\ lostPrints' > lostPrints => frame_count' = frame_count
  /\ pc \in {"running", "detect"} /\ pc' \in {"running", "detect"} =>
        frame_count' \in {frame_count, frame_count + 1}
  /\ frame_count' # frame_count =>
        frame_count' = frame_count + 1 \/ pc' \notin {"running", "detect"}
  /\ frame_count' % 3 # 0 => table' = table /\ saveCalls' = saveCalls

C5_FrameSkip == []C5_SkipState /\ [][C5_SkipStep]_vars

\* frame 6 is shown with a label on it, after detection on frame 3 as well
C5_Witness ==
  /\ detectedOn = {3, 6}
  /\ shown.count = 6
  /\ shown.labels # <<>>

\* the entries a nearest-match policy picks from: within the tolerance of
\* 0.5, and no entry nearer
Nearest(known, e) ==
  {i \in 1..Len(known) :
     /\ Dist(known[i], e) <= 5
     /\ \A j \in 1..Len(known) : Dist(known[i], e) <= Dist(known[j], e)}

\* C6: when gallery entries lie within the tolerance of a face, the face
\* gets the label of an entry at the smallest distance.
C6_NearestMatch ==
  \A i \in 1..Len(annot) :
     Nearest(known_encodings, encodings[i]) # {} =>
        \E j \in Nearest(known_encodings, encodings[i]) :
           annot[i] = known_names[j]

\* C7: a face whose embedding is that of a gallery entry gets that entry's
\* label (entries with the same embedding having the same label).
C7_SelfMatch ==
  \A i \in 1..Len(annot) : \A j \in 1..Len(known_encodings) :
     /\ encodings[i] = known_encodings[j]
     /\ \A k \in 1..Len(known_encodings) :
           known_encodings[k] = known_encodings[j] =>
              known_names[k] = known_names[j]
     => annot[i] = known_names[j]

\* C8: a face farther than the tolerance from every gallery entry, and so
\* every face when the gallery is empty, is labelled "Unknown", and the
\* process does not fail on it.
C8_UnknownWhenFar ==
  /\ \A i \in 1..Len(annot) :
        (\A j \in 1..Len(known_encodings) :
            Dist(known_encodings[j], encodings[i]) > 5)
        => annot[i] = Unknown
  /\ crash = "none"
  /\ pc # "crashed"

\* the gallery is empty, the face was labelled and shown, the loop reads on
C8_Witness ==
  /\ known_encodings = <<>>
  /\ shown.count = 3
  /\ shown.labels = <<Unknown>>
  /\ pc = "running"

\* C9: a failed read never ends the process, also when the camera cannot be
\* opened again.
C9_ReconnectKeepsRunning ==
  ~(pc = "crashed" /\ crash = "cap_none")

\* C10: between the first failed read of a disconnect and the next frame
\* read, "Camera lost" is printed once.
C10_CameraLostOnce ==
  lostPrints <= 1

\* C11: record_attendance stores an event at 09:20:00 as Late with
\* late_minutes 20 and an event at 09:05:00 as Present with late_minutes 5;
\* a row is Late exactly when 16 whole minutes or more have passed since
\* 09:00:00, late_minutes is the number of whole minutes past 09:00:00, and
\* it is 0 at or before 09:00:00. The call returns the stored status.
C11_LateStatus ==
  /\ \A r \in BagToSet(table) :
        /\ r.time = 33600 => r.status = "Late" /\ r.late_minutes = 20
        /\ r.time = 32700 => r.status = "Present" /\ r.late_minutes = 5
        /\ r.status = "Late" <=> r.time - 32400 >= 16 * 60
        /\ r.status \in {"Late", "Present"}
        /\ r.time <= 32400 => r.late_minutes = 0
        /\ r.time > 32400 =>
              /\ r.late_minutes * 60 <= r.time - 32400
              /\ r.time - 32400 < r.late_minutes * 60 + 60
  /\ \A c \in Recorders :
        ret[c][1] = "True" =>
           \E r \in BagToSet(table) :
              /\ <<r.student_id, r.date>> = lastOk[c]
              /\ r.status = ret[c][2]

\* a row stored at 09:05:00: Present, five minutes late
C11_Witness ==
  \E r \in BagToSet(table) :
     r.time = 32700 /\ r.status = "Present" /\ r.late_minutes = 5

\* C11 as stated: an event at 09:20:00 is stored as Late with late_minutes
\* 20 and an event at 09:05:00 as Present with late_minutes 0; a row is Late
\* exactly when more than 15 minutes have passed since 09:00:00, and
\* late_minutes is 0 at or before 09:00:00.
C11_LateStatusAsStated ==
  \A r \in BagToSet(table) :
     /\ r.time = 33600 => r.status = "Late" /\ r.late_minutes = 20
     /\ r.time = 32700 => r.status = "Present" /\ r.late_minutes = 0
     /\ r.status = "Late" <=> r.time - 32400 >= 16 * 60
     /\ r.time <= 32400 => r.late_minutes = 0

\* C12: an iteration of the loop that ends while q is pressed and unread (a
\* retry of the camera wait loop, a failed read with its reconnect, a frame
\* shown) ends the process through the cleanup.
C12_QuitStep ==
  /\ stopReq
  /\ pc \in {"awaiting", "running", "detect"}
  /\ pc' \in {"awaiting", "running", "stopped"}
  /\ loopVars' # loopVars
  => pc' = "stopped"

C12_QuitWithinIteration == [][C12_QuitStep]_vars

\* C13: a recognition process ended by the q key or by the Stop button of the
\* GUI has run the lines after the loop: it released the camera and printed
\* "Closing camera..." and "Recognition stopped".
C13_StopRunsCleanup ==
  pc \in {"stopped", "killed"} =>
     /\ cap = "none"
     /\ out = <<LineClosing, LineStopped>>

\* C14: while model.pkl is missing no recognition process gets past the
\* loading of the model, none holds the camera, the table has no row, and the
\* GUI has no session, no run_recognition thread and no subprocess; a
\* process that finds the file missing prints the error and exits without a
\* write, and start_attendance shows "model.pkl not found" and starts
\* nothing.
C14_MissingState ==
  /\ pc = "exited" => cap = "none" /\ out = <<LineNoModel>>
  /\ ~modelFile =>
        /\ pc \in {"off", "load", "exited"}
        /\ cap = "none"
        /\ table = EmptyBag
        /\ sessions = <<>>
        /\ current_session_id = 0
        /\ \A w \in Workers : wpc[w] = "none"
        /\ proc = 0
        /\ ~is_running

C14_MissingStep ==
  /\ pc = "load" /\ ~modelFile /\ pc' # "load" =>
        /\ pc' = "exited"
        /\ out' = <<LineNoModel>>
        /\ cap' = "none"
        /\ table' = table
  /\ ~modelFile /\ dialog' # dialog =>
        /\ dialog' = "model.pkl not found"
        /\ sessions' = sessions
        /\ wpc' = wpc
        /\ pc' = pc

C14_MissingModel == []C14_MissingState /\ [][C14_MissingStep]_vars

\* without model.pkl, a process started from a terminal has exited with the
\* error and the GUI has refused to start
C14_Witness ==
  /\ ~modelFile
  /\ pc = "exited"
  /\ out = <<LineNoModel>>
  /\ dialog = "model.pkl not found"
  /\ sessions = <<>>

\* C15: an error raised by detection, encoding or matching on a frame never
\* ends the process.
C15_FrameFaultIsolated ==
  ~(pc = "crashed" /\ crash = "detect")

\* C16: a label is in the marked set only if a write for it went through:
\* the table holds a row of its student_id.
C16_FailedWriteNotMarked ==
  \A l \in marked : \E d \in Dates : HasRow(table, StudentId(l), d)

\* C17: "Unknown" is never in the marked set, never passed to save_to_db and
\* never in a row; a face farther than 0.5 from every gallery entry is
\* annotated "Unknown" and its step leaves the marked set, the table and the
\* calls of save_to_db as they were and prints nothing.
C17_UnknownState ==
  /\ Unknown \notin marked
  /\ saveCalls[Unknown] = 0
  /\ \A r \in BagToSet(table) : r.name # Unknown

C17_UnknownStep ==
  /\ pc = "detect"
  /\ Len(annot') = Len(annot) + 1
  /\ \A j \in 1..Len(known_encodings) :
        Dist(known_encodings[j], encodings[Len(annot) + 1]) > 5
  => /\ annot'[Len(annot')] = Unknown
     /\ marked' = marked
     /\ table' = table
     /\ saveCalls' = saveCalls
     /\ out' = <<>>

C17_UnknownNeverRecorded == []C17_UnknownState /\ [][C17_UnknownStep]_vars

\* with a trained gallery and the table in place, frame 6 was shown with an
\* unknown face on it and nothing has been marked or stored
C17_Witness ==
  /\ known_names # <<>>
  /\ dbReady
  /\ shown = [count |-> 6, labels |-> <<Unknown>>]
  /\ marked = {}
  /\ table = EmptyBag

\* C18: every row of the table, whoever wrote it, carries the status and
\* late_minutes record_attendance derives from its time.
C18_SameStatusAsRecorder ==
  \A r \in BagToSet(table) :
     r = RecorderRow(r.student_id, r.name, r.date, r.time)

\* C19: the lines printed for a face make the GUI count it: an unknown face
\* adds one to unknown_count, a first mark prints "Marked: <name>" and adds
\* one to recognized_count, any other face adds nothing.
C19_CountStep ==
  /\ pc = "detect"
  /\ Len(annot') = Len(annot) + 1
  => LET nm == annot'[Len(annot')]
         c  == CountLines(out', NoCounts)
     IN  /\ c.unknown = IF nm = Unknown THEN 1 ELSE 0
         /\ c.recognized = IF nm \in marked' \ marked THEN 1 ELSE 0
         /\ nm \in marked' \ marked =>
               \E i \in 1..Len(out') : out'[i] = LineMarked(nm)

C19_CountsFollowEvents == [][C19_CountStep]_vars

\* C20: a failed attempt to open the camera, in the wait loop or after a
\* failed read, prints "Waiting for camera..." and leaves the process
\* waiting to open it again.
C20_OpenFailStep ==
  /\ pc \in {"awaiting", "running"}
  /\ pc' \in {"awaiting", "running"}
  /\ cap' = "none"
  /\ <<cap, out, lostPrints>>' # <<cap, out, lostPrints>>
  => /\ pc' = "awaiting"
     /\ \E i \in 1..Len(out') : out'[i] = LineWaiting

C20_WaitsForCamera == [][C20_OpenFailStep]_vars

\* C21: when at least one gallery entry is within the tolerance of a face,
\* the face gets the label of the first such entry in load order, whatever
\* the distances of the entries after it.
C21_FirstMatch ==
  \A i \in 1..Len(annot) :
     \A j \in 1..Len(known_encodings) :
        /\ Dist(known_encodings[j], encodings[i]) <= 5
        /\ \A k \in 1..(j - 1) : Dist(known_encodings[k], encodings[i]) > 5
        => annot[i] = known_names[j]

\* the face got the label of the first entry while the second entry, with
\* another label, is nearer to it
C21_Witness ==
  /\ Len(annot) = 1
  /\ Len(known_encodings) = 2
  /\ known_names[1] # known_names[2]
  /\ Dist(known_encodings[1], encodings[1]) <= 5
  /\ Dist(known_encodings[2], encodings[1]) < Dist(known_encodings[1], encodings[1])
  /\ annot[1] = known_names[1]

\* C22: the marked set is empty when a run starts and only grows while the
\* run goes on; a run that matches, for the first time, a label whose row of
\* the day is already there calls save_to_db for it once, and the rows of
\* that student_id and date stay one.
C22_State ==
  /\ pc \in {"load", "awaiting"} => marked = {}
  /\ pc = "running" /\ frame_count = 0 => marked = {}
  /\ \A l \in ignored :
        /\ l \in marked
        /\ saveCalls[l] = 1
        /\ \E d \in Dates : RowCount(table, StudentId(l), d) = 1

C22_Step ==
  /\ pc \in Live /\ pc' \in Live => marked \subseteq marked'
  /\ \A l \in Names :
        /\ matchedOn[l] = {}
        /\ matchedOn'[l] # {}
        /\ HasRow(table, StudentId(l), date)
        => /\ saveCalls[l] = 0
           /\ saveCalls'[l] = 1
           /\ table' = table
           /\ RowCount(table', StudentId(l), date) = 1

C22_RestartKeepsOneRow == []C22_State /\ [][C22_Step]_vars

\* a run has marked a label and called save_to_db for it, the call found
\* the row an earlier run had stored for the same label, and the table holds
\* that one row
C22_Witness ==
  \E l \in ignored :
     /\ marked = {l}
     /\ saveCalls[l] = 1
     /\ RowCount(table, StudentId(l), date) = 1
     /\ \A r \in BagToSet(table) : r.name = l /\ r.date = date

\* C26: a step of the loop prints "Marked: <name>" only if the call of
\* save_to_db in it stored a row of that name and today's date; not after a
\* storage error and not after an ignored insert.
C26_MarkedStep ==
  \A l \in Names :
     (\E i \in 1..Len(out') : out'[i] = LineMarked(l)) /\ annot' # annot
     => /\ table' = AddRow(table, LoopRow(l, date, tod))
        /\ \A i \in 1..Len(out') : out'[i] # LineDbError

C26_MarkedOnlyWhenStored == [][C26_MarkedStep]_vars

\* C27: two different labels marked in a run never have the same
\* student_id, the key under which each gets its row of the day.
C27_DistinctStudentIds ==
  \A l1, l2 \in marked :
     l1 # l2 => StudentId(l1) # StudentId(l2)

\* C30: the process never holds more than one open camera handle: a read
\* failure releases the handle before the camera is opened again, so that
\* the handle count follows cap; a process that ended by the q key, or by a
\* read on the camera a reopen failed to open, has released every handle it
\* opened.
C30_OneCameraHandle ==
  /\ handles \in {0, 1}
  /\ cap = "open" => handles = 1
  /\ pc \in Live /\ cap = "none" => handles = 0
  /\ pc = "stopped" => handles = 0
  /\ pc = "crashed" /\ crash = "cap_none" => handles = 0

\* two reads in a row failed, the camera opened again after each, and one
\* handle is open
C30_Witness ==
  /\ pc = "running"
  /\ lostPrints = 2
  /\ cap = "open"
  /\ handles = 1

\* C24: end_session, and with it cleanup_after_stop, runs at most once for a
\* session, whether the Stop button or the end of the subprocess's output
\* brings it about.
C24_EndedOnce ==
  \A s \in DOMAIN sessions : sessions[s].ends <= 1

\* the lines that process_recognition_output counts
Counted(lines) ==
  {i \in 1..Len(lines) : HasMarked(lines[i]) \/ HasUnknown(lines[i])}

\* C25: when cleanup_after_stop passes the counters to end_session, no line
\* that is to be counted is still waiting for the GUI thread or unread in
\* the pipe: the totals stored are those of the lines printed.
C25_TotalsStep ==
  \A s \in DOMAIN sessions :
     /\ s \in DOMAIN sessions'
     /\ sessions'[s].ends > sessions[s].ends
     => /\ Counted(events) = {}
        /\ \A w \in DOMAIN pipe : Counted(pipe[w]) = {}

C25_TotalsComplete == [][C25_TotalsStep]_vars

\* C23: at most one session is open and at most one recognition subprocess
\* is running or about to be launched, whatever the order of the presses of
\* Start and Stop and the progress of the run_recognition threads.
C23_OneRecognition ==
  /\ Cardinality({s \in DOMAIN sessions : ~sessions[s].ended}) <= 1
  /\ Cardinality({w \in DOMAIN wpc : wpc[w] = "spawn"})
        + (IF pc \in Live /\ owner # 0 THEN 1 ELSE 0) <= 1

\* C28: no DatabaseManager operation runs on the connection after db.close(),
\* neither in on_closing nor in a callback or worker thread that runs later,
\* and the on_closing that closes the connection destroys the window.
C28_State ==
  /\ ~lateUse
  /\ conn = "closed" => window = "destroyed"

C28_Step ==
  conn = "open" /\ conn' = "closed" => window' = "destroyed"

C28_CloseThenDestroy == []C28_State /\ [][C28_Step]_vars

\* C29: a preview thread never calls a method of the capture after
\* stop_preview has released it or set self.cap to None, and no frame is
\* drawn on the canvas once stop_preview has returned.
C29_State ==
  pfault = "none"

C29_Step ==
  \A t \in DOMAIN tpc :
     tpc[t] = "draw" /\ tpc'[t] # "draw" =>
        ~(spc = "idle" /\ ~pv_running)

C29_PreviewStopsCleanly == []C29_State /\ [][C29_Step]_vars

====
